---------------------------- MODULE Spec2Model ----------------------------
(***************************************************************************)
(* A model of the VQA training script: main.py (main, train, evaluate)     *)
(* and the module signatures of model.py.                                  *)
(*                                                                         *)
(* Tensors are abstracted to what the control flow reads: an answer batch  *)
(* `a` is a matrix of tokens (one row per sample), a decoder output is the *)
(* vector of its top-1 tokens, a module's parameters and an optimizer's    *)
(* state are version counters that an optimizer step advances, and a loss  *)
(* is the number of step losses summed into it.                            *)
(*                                                                         *)
(* Python indexes model[0], model[1] and t = 0 .. a.size(1)-1; sequences   *)
(* here are indexed from 1, so model[0] is model[1] below and a[:, t] is   *)
(* Column(a, t + 1).                                                       *)
(*                                                                         *)
(* Two specifications:                                                     *)
(*   Spec      train() and evaluate() called by an arbitrary caller, with  *)
(*             the `model` argument drawn from the modules of model.py and *)
(*             from modules whose forward takes what the call sites pass;  *)
(*   SpecMain  main() as the repository wires it.                          *)
(***************************************************************************)
EXTENDS Integers, Sequences, FiniteSets, TLC

VARIABLES
    pc,               \* position in main() / train() / evaluate()
    \* ---- main() ----
    args,             \* parsed command line
    env,              \* what the run finds: unparsed words, CUDA, checkpoint
    device,           \* torch.device chosen in main()
    events,           \* calls main() has completed, in order
    raised,           \* the call whose arguments did not fit, if any
    \* ---- train() / evaluate() ----
    model,            \* the `model` argument: <<encoder, decoder>>
    training,         \* module.training of each module
    params,           \* version of each module's parameters
    optim_state,      \* version of each optimizer's state
    grad,             \* each module's .grad: "none", "zero", "full", "clipped"
    ncalls,           \* train()/evaluate() calls the caller has made
    fn,               \* the function running: "none", "train", "evaluate"
    last_call,        \* the call that returned last: "none", "train", "evaluate"
    epoch,            \* the `epoch` argument
    batches,          \* len(loader)
    step,             \* index of the batch in the loader
    a,                \* ground-truth answers of the batch
    t,                \* decoder step
    decoder_input,    \* next input of the decoder
    decoder_out_idxs, \* the list handed to compute_score
    loss,             \* number of step losses summed into `loss`
    n_totals,         \* non-PAD targets counted so far
    moving_loss,      \* "init" (0.0), "first" (assigned), "smoothed" (EMA)
    k,                \* index of the inner loop over optims / modules
    \* ---- records of the calls made (arguments and returns) ----
    fed,              \* decoder inputs passed to model[1], this batch
    topis,            \* top-1 outputs model[1] returned, this batch
    ops,              \* operations performed on modules/optimizers, this batch
    score_arg,        \* argument of compute_score, this batch
    snap              \* <<params, optim_state, grad>> at entry of evaluate()

mainVars == <<args, env, device, events, raised>>
modVars  == <<training, params, optim_state, grad>>
callVars == <<ncalls, fn, last_call, epoch, batches, step, moving_loss, snap>>
batchVars == <<a, t, decoder_input, decoder_out_idxs, loss, n_totals, k,
               fed, topis, ops, score_arg>>
vars == <<pc, mainVars, model, modVars, callVars, batchVars>>

---------------------------------------------------------------------------
(* Bounds *)
MaxCalls   == 3    \* train()/evaluate() calls by the caller
MaxBatches == 2    \* batches in a loader
MaxEpoch   == 1    \* largest `epoch` argument / args.epoch
MaxDevices == 2    \* torch.cuda.device_count()
MaxBatchArg == 2   \* --batch_size

---------------------------------------------------------------------------
(* Tokens and batches *)
PAD_TOKEN == "PAD"
SOS_TOKEN == "SOS"
Tokens == {PAD_TOKEN, SOS_TOKEN, "w"}

\* Answer batches a loader can yield: (batch_size, a.size(1)) of 1x1, 2x2, 1x3.
\* Every batch has at least one sample and one answer position.
BatchPool ==
    { << <<"w">> >>,
      << <<"w", "w">>, <<"w", PAD_TOKEN>> >>,
      << <<"w", "w", PAD_TOKEN>> >> }

BatchSize(b) == Len(b)            \* len(a)
AnsLen(b)    == Len(b[1])         \* a.size(1)
Column(b, j) == [i \in 1..Len(b) |-> b[i][j]]     \* a[:, j-1]
SosInput(b)  == [i \in 1..Len(b) |-> SOS_TOKEN]
NonPad(col)  == Cardinality({i \in DOMAIN col : col[i] # PAD_TOKEN})
TopK(b)      == [1..BatchSize(b) -> Tokens]       \* possible top-1 vectors


---------------------------------------------------------------------------
(* Signatures (model.py) and call sites (main.py) *)

\* Parameters after `self`; none has a default.
VqaEncoderInit       == <<"vocab_size", "word_embed_dim", "hidden_size", "resnet_out", "num_ans">>
VqaEncoderForward    == <<"images", "questions", "mca", "q_lens">>
AnswerDecoderInit    == <<"hidden_size">>
AnswerDecoderForward == <<"input_step", "last_hidden", "mca_embed">>

\* Positional arguments main.py passes.
EncoderCtorArgs == <<"vocab_size", "args.word_embed_dim", "args.hidden_size", "args.resnet_out">>
DecoderCtorArgs == <<"num_answers", "args.word_embed_dim", "args.hidden_size">>
EncoderCallArgs == <<"v", "q", "q_lens">>
DecoderCallArgs == <<"decoder_input", "decoder_hidden">>

\* A positional call binds iff it supplies one argument per parameter
\* (no defaults, no *args in model.py); otherwise Python raises TypeError.
CallOK(supplied, required) == Len(supplied) = Len(required)

\* The modules of model.py, as a `model` argument.
RepoEncoder == [name |-> "VqaEncoder", forward |-> VqaEncoderForward]
RepoDecoder == [name |-> "AnswerDecoder", forward |-> AnswerDecoderForward]
\* Modules whose forward takes what train()/evaluate() pass.
FitEncoder == [name |-> "encoder(v, q, q_lens)", forward |-> <<"v", "q", "q_lens">>]
FitDecoder == [name |-> "decoder(input, hidden)", forward |-> <<"input", "hidden">>]
ModelArgs == {<<e, d>> : e \in {RepoEncoder, FitEncoder}, d \in {RepoDecoder, FitDecoder}}

---------------------------------------------------------------------------
(* Helpers of train() / evaluate() *)

AllModules(flag) == [i \in 1..2 |-> flag]
\* Variant: the modules are left in the mode they were in.
SetTrainMode_Skipped(tr) == tr
\* for module in model: module.train()
SetTrainMode(tr) == [i \in DOMAIN tr |-> TRUE]
\* for module in model: module.eval()
SetEvalMode(tr) == [i \in DOMAIN tr |-> FALSE]

\* Variant: the greedy prediction is fed back.
TrainNextInput_Greedy(b, tt, topi) == topi
\* train(): decoder_input = a[:, t].view(-1)
TrainNextInput(b, tt, topi) == Column(b, tt + 1)
\* Variant: the ground-truth token is fed, as in train().
EvalNextInput_TeacherForced(b, tt, topi) == Column(b, tt + 1)
\* evaluate(): decoder_input = LongTensor([topi[i][0] for i in range(batch_size)])
EvalNextInput(b, tt, topi) == [i \in 1..BatchSize(b) |-> topi[i]]
\* for t in range(a.size(1)): does the loop take another step after step tt-1?
DecLoopContinues(b, tt) == tt < AnsLen(b)

\* Variant: the optimizers step right after backward, unclipped.
AfterBackward_SkipClip == "train_step"
\* The statement after loss.backward(): the loop that clips the gradients.
AfterBackward == "train_clip"

NoBatch == <<>>
ResetBatch ==
    /\ a' = NoBatch /\ t' = 0 /\ decoder_input' = <<>> /\ decoder_out_idxs' = <<>>
    /\ loss' = 0 /\ n_totals' = 0 /\ k' = 1
    /\ fed' = <<>> /\ topis' = <<>> /\ ops' = <<>> /\ score_arg' = <<>>

Raise(callee) ==
    /\ pc' = "TypeError"
    /\ raised' = callee

---------------------------------------------------------------------------
(* train() *)

\* Lines 80-87: put every module in train mode, read len(train_loader).
TrainBegin ==
    /\ pc = "idle"
    /\ ncalls < MaxCalls
    /\ \E e \in 0..MaxEpoch, n \in 0..MaxBatches :
          /\ epoch' = e
          /\ batches' = n
    /\ fn' = "train"
    /\ training' = SetTrainMode(training)
    /\ step' = 0
    /\ ncalls' = ncalls + 1
    /\ pc' = "train_loop"
    /\ UNCHANGED <<mainVars, model, params, optim_state, grad, last_call,
                   moving_loss, snap, batchVars>>

\* Lines 88-108: next batch, encoder forward, decoder_input = SOS.
TrainBatch ==
    /\ pc = "train_loop"
    /\ step < batches
    /\ \E b \in BatchPool :
          /\ a' = b
          /\ loss' = 0
          /\ n_totals' = 0
          /\ fed' = <<>> /\ topis' = <<>> /\ score_arg' = <<>>
          /\ IF CallOK(EncoderCallArgs, model[1].forward)
                THEN /\ ops' = << <<"encoder", 1>> >>
                     /\ decoder_out_idxs' = <<>>
                     /\ decoder_input' = SosInput(b)
                     /\ t' = 0
                     /\ pc' = "train_dec"
                     /\ UNCHANGED raised
                ELSE /\ ops' = <<>>
                     /\ Raise(model[1].name)
                     /\ UNCHANGED <<decoder_out_idxs, decoder_input, t>>
    /\ UNCHANGED <<args, env, device, events, model, modVars, callVars, k>>

\* Lines 110-127: one decoder step with teacher forcing.
TrainDecStep ==
    /\ pc = "train_dec"
    /\ IF CallOK(DecoderCallArgs, model[2].forward)
          THEN \E topi \in TopK(a) :
                 /\ fed' = Append(fed, decoder_input)
                 /\ topis' = Append(topis, topi)
                 /\ decoder_input' = TrainNextInput(a, t, topi)
                 /\ decoder_out_idxs' = Append(decoder_out_idxs, topi)
                 /\ loss' = loss + 1
                 /\ n_totals' = n_totals + NonPad(Column(a, t + 1))
                 /\ ops' = Append(ops, <<"decoder", 2>>)
                 /\ t' = t + 1
                 /\ pc' = IF DecLoopContinues(a, t + 1)
                             THEN "train_dec" ELSE "train_zero_grad"
                 /\ UNCHANGED raised
          ELSE /\ Raise(model[2].name)
               /\ UNCHANGED <<fed, topis, decoder_input, decoder_out_idxs, loss,
                              n_totals, ops, t>>
    /\ UNCHANGED <<args, env, device, events, model, modVars, callVars, a, k,
                   score_arg>>

\* Lines 129-130: optim.zero_grad() for the k-th optimizer.
TrainZeroGrad ==
    /\ pc = "train_zero_grad"
    /\ grad' = [grad EXCEPT ![k] = "zero"]
    /\ ops' = Append(ops, <<"zero_grad", k>>)
    /\ IF k < Len(model)
          THEN k' = k + 1 /\ pc' = pc
          ELSE k' = 1 /\ pc' = "train_backward"
    /\ UNCHANGED <<mainVars, model, training, params, optim_state, callVars,
                   a, t, decoder_input, decoder_out_idxs, loss, n_totals,
                   fed, topis, score_arg>>

\* Line 132: loss.backward() fills the gradients of both modules.
TrainBackward ==
    /\ pc = "train_backward"
    /\ grad' = [i \in DOMAIN grad |-> "full"]
    /\ ops' = Append(ops, <<"backward", 0>>)
    /\ pc' = AfterBackward
    /\ UNCHANGED <<mainVars, model, training, params, optim_state, callVars,
                   a, t, decoder_input, decoder_out_idxs, loss, n_totals, k,
                   fed, topis, score_arg>>

\* Lines 134-135: clip_grad_norm_ on the k-th module.
TrainClip ==
    /\ pc = "train_clip"
    /\ grad' = [grad EXCEPT ![k] = "clipped"]
    /\ ops' = Append(ops, <<"clip", k>>)
    /\ IF k < Len(model)
          THEN k' = k + 1 /\ pc' = pc
          ELSE k' = 1 /\ pc' = "train_step"
    /\ UNCHANGED <<mainVars, model, training, params, optim_state, callVars,
                   a, t, decoder_input, decoder_out_idxs, loss, n_totals,
                   fed, topis, score_arg>>

\* Lines 137-138: optim.step() for the k-th optimizer.
TrainOptimStep ==
    /\ pc = "train_step"
    /\ params' = [params EXCEPT ![k] = @ + 1]
    /\ optim_state' = [optim_state EXCEPT ![k] = @ + 1]
    /\ ops' = Append(ops, <<"step", k>>)
    /\ IF k < Len(model)
          THEN k' = k + 1 /\ pc' = pc
          ELSE k' = 1 /\ pc' = "train_stats"
    /\ UNCHANGED <<mainVars, model, training, grad, callVars,
                   a, t, decoder_input, decoder_out_idxs, loss, n_totals,
                   fed, topis, score_arg>>

\* Lines 140-146: moving loss, score, log line; on to the next batch.
TrainBatchEnd ==
    /\ pc = "train_stats"
    /\ moving_loss' = IF epoch = 0 /\ step = 0 THEN "first" ELSE "smoothed"
    /\ score_arg' = decoder_out_idxs
    /\ ops' = ops \o << <<"moving_loss", 0>>, <<"score", 0>>, <<"log", 0>> >>
    /\ step' = step + 1
    /\ pc' = "train_loop"
    /\ UNCHANGED <<mainVars, model, modVars, ncalls, fn, last_call, epoch, batches,
                   snap, a, t, decoder_input, decoder_out_idxs, loss, n_totals,
                   k, fed, topis>>

\* Line 148: return moving_loss.
TrainReturn ==
    /\ pc = "train_loop"
    /\ step = batches
    /\ last_call' = "train"
    /\ fn' = "none"
    /\ pc' = "idle"
    /\ ResetBatch
    /\ UNCHANGED <<mainVars, model, modVars, ncalls, epoch, batches, step,
                   moving_loss, snap>>


---------------------------------------------------------------------------
(* evaluate() *)

\* Lines 20-25: put every module in eval mode, read len(val_loader).
EvalBegin ==
    /\ pc = "idle"
    /\ ncalls < MaxCalls
    /\ \E e \in 0..MaxEpoch, n \in 0..MaxBatches :
          /\ epoch' = e
          /\ batches' = n
    /\ fn' = "evaluate"
    /\ training' = SetEvalMode(training)
    /\ step' = 0
    /\ ncalls' = ncalls + 1
    /\ snap' = <<params, optim_state, grad>>
    /\ pc' = "eval_loop"
    /\ UNCHANGED <<mainVars, model, params, optim_state, grad, last_call,
                   moving_loss, batchVars>>

\* Lines 26-45: next batch, encoder forward, decoder_input = SOS.
EvalBatch ==
    /\ pc = "eval_loop"
    /\ step < batches
    /\ \E b \in BatchPool :
          /\ a' = b
          /\ loss' = 0
          /\ n_totals' = 0
          /\ fed' = <<>> /\ topis' = <<>> /\ score_arg' = <<>>
          /\ IF CallOK(EncoderCallArgs, model[1].forward)
                THEN /\ ops' = << <<"encoder", 1>> >>
                     /\ decoder_out_idxs' = <<>>
                     /\ decoder_input' = SosInput(b)
                     /\ t' = 0
                     /\ pc' = "eval_dec"
                     /\ UNCHANGED raised
                ELSE /\ ops' = <<>>
                     /\ Raise(model[1].name)
                     /\ UNCHANGED <<decoder_out_idxs, decoder_input, t>>
    /\ UNCHANGED <<args, env, device, events, model, modVars, callVars, k>>

\* Lines 47-61: one decoder step; the prediction becomes the next input.
EvalDecStep ==
    /\ pc = "eval_dec"
    /\ IF CallOK(DecoderCallArgs, model[2].forward)
          THEN \E topi \in TopK(a) :
                 /\ fed' = Append(fed, decoder_input)
                 /\ topis' = Append(topis, topi)
                 /\ decoder_input' = EvalNextInput(a, t, topi)
                 /\ decoder_out_idxs' = Append(decoder_out_idxs, decoder_input')
                 /\ loss' = loss + 1
                 /\ n_totals' = n_totals + NonPad(Column(a, t + 1))
                 /\ ops' = Append(ops, <<"decoder", 2>>)
                 /\ t' = t + 1
                 /\ pc' = IF DecLoopContinues(a, t + 1)
                             THEN "eval_dec" ELSE "eval_stats"
                 /\ UNCHANGED raised
          ELSE /\ Raise(model[2].name)
               /\ UNCHANGED <<fed, topis, decoder_input, decoder_out_idxs, loss,
                              n_totals, ops, t>>
    /\ UNCHANGED <<args, env, device, events, model, modVars, callVars, a, k,
                   score_arg>>

\* Lines 63-65: score of the batch, log line; on to the next batch.
EvalBatchEnd ==
    /\ pc = "eval_stats"
    /\ score_arg' = decoder_out_idxs
    /\ ops' = ops \o << <<"score", 0>>, <<"log", 0>> >>
    /\ step' = step + 1
    /\ pc' = "eval_loop"
    /\ UNCHANGED <<mainVars, model, modVars, ncalls, fn, last_call, epoch, batches,
                   moving_loss, snap, a, t, decoder_input, decoder_out_idxs,
                   loss, n_totals, k, fed, topis>>

\* Lines 67-68: epoch summary, return score.
EvalReturn ==
    /\ pc = "eval_loop"
    /\ step = batches
    /\ last_call' = "evaluate"
    /\ fn' = "none"
    /\ pc' = "idle"
    /\ ResetBatch
    /\ UNCHANGED <<mainVars, model, modVars, ncalls, epoch, batches, step,
                   moving_loss, snap>>

---------------------------------------------------------------------------
(* Specification of train() / evaluate() under an arbitrary caller *)

NoArgs == [mode |-> "train", resume |-> FALSE, cpu |-> TRUE, epoch |-> 0,
           batch_size |-> 1]
NoEnv  == [unparsed |-> FALSE, cuda |-> FALSE, devices |-> 0, ckpt_epoch |-> 0]

InitModules ==
    /\ training = AllModules(TRUE)        \* nn.Module starts in train mode
    /\ params = AllModules(0)
    /\ optim_state = AllModules(0)
    /\ grad = AllModules("none")

InitCalls ==
    /\ ncalls = 0 /\ fn = "none" /\ last_call = "none" /\ epoch = 0 /\ batches = 0 /\ step = 0
    /\ moving_loss = "init" /\ snap = <<>>
    /\ a = NoBatch /\ t = 0 /\ decoder_input = <<>> /\ decoder_out_idxs = <<>>
    /\ loss = 0 /\ n_totals = 0 /\ k = 1
    /\ fed = <<>> /\ topis = <<>> /\ ops = <<>> /\ score_arg = <<>>

Init ==
    /\ pc = "idle"
    /\ args = NoArgs /\ env = NoEnv /\ device = "none" /\ events = <<>>
    /\ raised = "none"
    /\ model \in ModelArgs
    /\ InitModules
    /\ InitCalls

Next ==
    \/ TrainBegin \/ TrainBatch \/ TrainDecStep \/ TrainZeroGrad
    \/ TrainBackward \/ TrainClip \/ TrainOptimStep \/ TrainBatchEnd
    \/ TrainReturn
    \/ EvalBegin \/ EvalBatch \/ EvalDecStep \/ EvalBatchEnd \/ EvalReturn

Spec == Init /\ [][Next]_vars


---------------------------------------------------------------------------
(* Properties of train() and evaluate(), checked under Spec *)

IsPrefix(p, q) == Len(p) <= Len(q) /\ \A i \in 1..Len(p) : p[i] = q[i]
Repeat(x, n) == [i \in 1..n |-> x]

\* C1: in train(), the decoder input at step 0 is SOS_TOKEN and at every step
\* t >= 1 it is the ground-truth column a[:, t-1], whatever the decoder
\* predicted at step t-1; the greedy predictions only go to the scoring list.
C1_TeacherForcing ==
    fn = "train" /\ a # NoBatch =>
        /\ \A j \in 1..Len(fed) :
              fed[j] = IF j = 1 THEN SosInput(a) ELSE Column(a, j - 1)
        /\ pc = "train_dec" =>
              decoder_input = IF t = 0 THEN SosInput(a) ELSE Column(a, t)
        /\ decoder_out_idxs = topis

\* A second decoder step of train() was fed the ground truth although the
\* first step's prediction differed from it.
C1_Witness ==
    /\ fn = "train" /\ BatchSize(a) = 2 /\ Len(fed) >= 2
    /\ topis[1] # Column(a, 1)
    /\ fed[2] = Column(a, 1)

\* C5: in evaluate(), the decoder input at step 0 is SOS_TOKEN and at every
\* step t >= 1 it is the decoder's own top-1 prediction of step t-1; what
\* compute_score receives is exactly these predictions, one per step for all
\* a.size(1) steps.
C5_FreeRunning ==
    fn = "evaluate" /\ a # NoBatch =>
        /\ \A j \in 1..Len(fed) :
              fed[j] = IF j = 1 THEN SosInput(a) ELSE topis[j - 1]
        /\ pc = "eval_dec" =>
              decoder_input = IF t = 0 THEN SosInput(a) ELSE topis[t]
        /\ pc = "eval_loop" =>
              /\ score_arg = topis
              /\ Len(score_arg) = AnsLen(a)
              /\ Len(fed) = AnsLen(a)

\* A batch of evaluate() was scored after a first prediction of all PAD,
\* which differs from the ground truth, and was fed back at the second step.
C5_Witness ==
    /\ fn = "evaluate" /\ pc = "eval_loop" /\ a # NoBatch
    /\ AnsLen(a) >= 2
    /\ topis[1] = [i \in 1..BatchSize(a) |-> PAD_TOKEN]
    /\ topis[1] # Column(a, 1)
    /\ fed[2] = topis[1]
    /\ Len(score_arg) = AnsLen(a)

\* The operations of one batch of train(), in order, for a.size(1) = n.
ExpectedTrainOps(n) ==
    << <<"encoder", 1>> >> \o Repeat(<<"decoder", 2>>, n) \o
    << <<"zero_grad", 1>>, <<"zero_grad", 2>>, <<"backward", 0>>,
       <<"clip", 1>>, <<"clip", 2>>, <<"step", 1>>, <<"step", 2>>,
       <<"moving_loss", 0>>, <<"score", 0>>, <<"log", 0>> >>

\* C6: in every batch of train() the a.size(1) decoder steps come first, then
\* zero_grad() on every optimizer, one backward(), clipping on every module,
\* step() on every optimizer, and only then the moving-loss update; each
\* happens exactly once.
C6_UpdateOrder ==
    fn = "train" /\ a # NoBatch =>
        /\ IsPrefix(ops, ExpectedTrainOps(AnsLen(a)))
        /\ pc = "train_loop" => ops = ExpectedTrainOps(AnsLen(a))
        /\ pc \in {"train_zero_grad", "train_backward", "train_clip",
                   "train_step", "train_stats"} => loss = AnsLen(a)
        /\ pc = "train_step" => grad = AllModules("clipped")

\* The second batch of a train() call has completed all its operations.
C6_Witness ==
    /\ fn = "train" /\ pc = "train_loop" /\ step = 2
    /\ AnsLen(a) >= 2
    /\ ops = ExpectedTrainOps(AnsLen(a))
    /\ params = AllModules(2)

TrainingOps == {"zero_grad", "backward", "clip", "step"}

\* C7: evaluate() never calls zero_grad(), backward() or step(), so parameters,
\* optimizer state and gradients during and after evaluate() are those at its
\* entry; and a train() call has all modules in train mode at every forward pass.
C7_EvaluateFrame ==
    /\ fn = "evaluate" =>
          /\ <<params, optim_state, grad>> = snap
          /\ \A i \in 1..Len(ops) : ops[i][1] \notin TrainingOps
    /\ fn = "none" /\ last_call = "evaluate" =>
          <<params, optim_state, grad>> = snap
    /\ fn = "train" /\ ops # <<>> => training = AllModules(TRUE)

\* A train() call that follows an evaluate() (itself after a training batch)
\* is in its first decoder loop.
C7_Witness ==
    /\ fn = "train" /\ last_call = "evaluate"
    /\ pc = "train_dec" /\ step = 0
    /\ params[1] > 0
    /\ snap = <<params, optim_state, grad>>
    /\ training = AllModules(TRUE)


---------------------------------------------------------------------------
(* main() as the repository wires it *)

\* Lines 153-156: parse the command line; stray words raise NameError.
MainParseArgs ==
    /\ pc = "main"
    /\ pc' = IF env.unparsed THEN "NameError" ELSE "setup"
    /\ UNCHANGED <<mainVars, model, modVars, callVars, batchVars>>

\* Lines 158-162: logger, metric, seeds.
MainSetup ==
    /\ pc = "setup"
    /\ events' = events \o << <<"GOATLogger", 0>>, <<"VqaMetric", 0>>, <<"seed", 0>> >>
    /\ pc' = "device"
    /\ UNCHANGED <<args, env, device, raised, model, modVars, callVars, batchVars>>

\* Lines 163-173: cpu, or cuda with the batch size scaled by the device count.
MainDevice ==
    /\ pc = "device"
    /\ IF args.cpu
          THEN /\ device' = "cpu"
               /\ pc' = "data"
               /\ UNCHANGED args
          ELSE IF ~env.cuda
                  THEN /\ pc' = "RuntimeError"
                       /\ UNCHANGED <<args, device>>
                  ELSE /\ args' = [args EXCEPT !.batch_size = @ * env.devices]
                       /\ device' = "cuda"
                       /\ pc' = "data"
    /\ UNCHANGED <<env, events, raised, model, modVars, callVars, batchVars>>

\* Line 176: prepare_data(args).
MainPrepareData ==
    /\ pc = "data"
    /\ events' = Append(events, <<"prepare_data", args.batch_size>>)
    /\ pc' = "build_encoder"
    /\ UNCHANGED <<args, env, device, raised, model, modVars, callVars, batchVars>>

\* Line 180: VqaEncoder(vocab_size, word_embed_dim, hidden_size, resnet_out).
\* The call does not fit VqaEncoder.__init__, so every run that gets here
\* raises TypeError; lines 181-217 never run and have no action.
MainBuildEncoder ==
    /\ pc = "build_encoder"
    /\ IF CallOK(EncoderCtorArgs, VqaEncoderInit)
          THEN /\ events' = Append(events, <<"VqaEncoder", 0>>)
               /\ pc' = "build_decoder"
               /\ UNCHANGED raised
          ELSE /\ Raise("VqaEncoder")
               /\ UNCHANGED events
    /\ UNCHANGED <<args, env, device, model, modVars, callVars, batchVars>>

ArgsInputs ==
    [mode : {"train", "eval"}, resume : BOOLEAN, cpu : BOOLEAN,
     epoch : 0..MaxEpoch, batch_size : 1..MaxBatchArg]
EnvInputs ==
    {e \in [unparsed : BOOLEAN, cuda : BOOLEAN, devices : 0..MaxDevices,
            ckpt_epoch : 0..MaxEpoch] :
        e.cuda <=> e.devices > 0}

InitMain ==
    /\ pc = "main"
    /\ args \in ArgsInputs
    /\ env \in EnvInputs
    /\ device = "none" /\ events = <<>> /\ raised = "none"
    /\ model = <<>>                       \* no module is built yet
    /\ training = <<>> /\ params = <<>> /\ optim_state = <<>> /\ grad = <<>>
    /\ InitCalls

NextMain ==
    \/ MainParseArgs \/ MainSetup \/ MainDevice \/ MainPrepareData
    \/ MainBuildEncoder

SpecMain == InitMain /\ [][NextMain]_vars

---------------------------------------------------------------------------
(* Statements about main(), checked under SpecMain *)

MainEnded == pc \in {"returned", "NameError", "RuntimeError", "TypeError"}
\* The command line is accepted and the chosen device exists.
ValidRun == ~env.unparsed /\ (args.cpu \/ env.cuda)
LastEpoch == IF args.resume THEN env.ckpt_epoch ELSE 0
LoopEvents == SelectSeq(events,
                LAMBDA e : e[1] \in {"train", "evaluate", "save_ckpt", "Done"})

RECURSIVE EpochEvents(_, _, _)
\* train, evaluate, save_ckpt for the epochs e .. n-1; save_ckpt gets the
\* score of the same epoch's evaluate and the best score `best`.
EpochEvents(e, n, best) ==
    IF e >= n THEN <<>>
    ELSE << <<"train", e>>, <<"evaluate", e>>,
            <<"save_ckpt", e, <<"evaluate", e>>, best>> >>
         \o EpochEvents(e + 1, n, <<"save_ckpt", e>>)

\* C2: in training mode main() runs train, evaluate, save_ckpt once each, in
\* that order, for the epochs last_epoch .. args.epoch-1 in ascending order,
\* passing the scores along, and logs "Done" after the last save_ckpt.
C2_EpochLoop ==
    MainEnded /\ ValidRun /\ args.mode = "train" =>
        /\ pc = "returned"
        /\ LoopEvents = EpochEvents(LastEpoch, args.epoch, <<"initial", 0>>)
                          \o << <<"Done", 0>> >>

\* C3: in eval mode main() calls evaluate() exactly once, with epoch =
\* last_epoch, and returns; no train(), optimizer step or save_ckpt() happens.
C3_EvalOnly ==
    MainEnded /\ ValidRun /\ args.mode = "eval" =>
        /\ pc = "returned"
        /\ LoopEvents = << <<"evaluate", LastEpoch>> >>

\* C4: every constructor and forward call main.py makes on VqaEncoder and
\* AnswerDecoder supplies the parameters model.py requires, so no run ends in
\* a call error.
C4_PipelineWired ==
    /\ raised = "none"
    /\ pc # "TypeError"

=============================================================================
